---- MODULE Spec2Model ----
(***************************************************************************)
(* gomig: the command line (commands/commands.go), its interrupt           *)
(* controller, the Spanner driver (drivers/spanner/spanner.go) and the     *)
(* migration engine the commands call (package migrate, modelled from its  *)
(* specification).                                                         *)
(***************************************************************************)
EXTENDS Integers, Sequences, FiniteSets, TLC

\* ------------------------------------------------------------------ bounds
MaxVersion == 3
MaxInterrupts == 2
MaxRuns == 2

VersionSet == 1..MaxVersion

\* ------------------------------------------------------- program constants
DefaultMigrationsTable == "SchemaMigrations"
\* a table name given by the URL's x-migrations-table parameter
CustomTable == "CustomMigrations"
Tables == {DefaultMigrationsTable, CustomTable}

VARIABLES
  files,            \* versions in the file store (each an Up/Down pair)
  migrationsTable,  \* s.config.MigrationsTable
  rows,             \* table name -> set of Version rows
  schema,           \* versions whose statements are in effect
  runsLeft,         \* CLI invocations still to come
  pc,               \* position of the command's goroutine
  cmd,              \* the command being run, with its argument
  work,             \* units still to apply, in order
  short,            \* fewer units were available than asked for
  applied,          \* units driver.Migrate returned nil for, in order
  started,          \* units the engine started (passed the cancellation check)
  err,              \* outcome of the engine operation
  verDone,          \* the unit in flight: its version record was written
  ddlDone,          \* the unit in flight: its statements took effect
  vcall,            \* the last Versions() call: was a read error met, what it returned
  vBefore,          \* Version() as the operation began
  ctxDone,          \* the context is cancelled
  exit,             \* the controller's local "exit"
  loop,             \* the controller's local "loop"
  c,                \* signals buffered in channel c (capacity 1)
  notify,           \* signal.Notify(c, os.Interrupt) is in force
  nintr,            \* interrupts the OS sent to this process
  nrecv,            \* interrupts the controller received from c
  scancel,          \* units started when cancel() was called (-1: not called)
  fcancel,          \* a unit was in flight when cancel() was called
  ndone,            \* units whose post-hook completed
  exitCode,         \* how the process ended
  reported,         \* what logCurrentVersion printed
  prev              \* summary of the previous invocation

vars == <<files, migrationsTable, rows, schema, runsLeft, pc, cmd, work, short,
          applied, started, err, verDone, ddlDone, vcall, vBefore, ctxDone, exit,
          loop, c, notify, nintr, nrecv, scancel, fcancel, ndone, exitCode, reported,
          prev>>

dbVars == <<rows, schema>>
ctlVars == <<ctxDone, exit, loop, c, notify, nintr, nrecv, scancel, fcancel>>
engVars == <<work, short, applied, started, err, verDone, ddlDone, vcall, vBefore,
            ndone>>
cfgVars == <<files, migrationsTable>>

\* ------------------------------------------------------------ helpers
MaxOf(S) == IF S = {} THEN 0 ELSE CHOOSE x \in S : \A y \in S : y <= x

MinOf(S) == CHOOSE x \in S : \A y \in S : x <= y

RECURSIVE Ascending(_)
Ascending(S) == IF S = {} THEN <<>> ELSE <<MinOf(S)>> \o Ascending(S \ {MinOf(S)})

RECURSIVE Descending(_)
Descending(S) == IF S = {} THEN <<>> ELSE <<MaxOf(S)>> \o Descending(S \ {MaxOf(S)})

Take(s, n) == SubSeq(s, 1, IF n < Len(s) THEN n ELSE Len(s))

Range(s) == {s[i] : i \in 1..Len(s)}

Unit(d, v) == [dir |-> d, v |-> v]

UnitsOf(d, vs) == [i \in 1..Len(vs) |-> Unit(d, vs[i])]

NoCall == [failed |-> FALSE, err |-> FALSE, list |-> <<>>]

NoPrev == [name |-> "none", arg |-> 0, ok |-> FALSE, before |-> 0, after |-> 0]


\* ------------------------------------------------------------ the driver
\* Spanner.Version: the highest row of DefaultMigrationsTable, 0 if none.
Version == MaxOf(rows[DefaultMigrationsTable])

\* Spanner.Versions, when k rows are read before the iterator ends ("done"),
\* fails in Next ("next") or yields a row that does not decode ("decode").
VersionsResult(k, how) ==
  LET all == Ascending(rows[DefaultMigrationsTable])
      got == Take(all, k)
  IN  IF how = "done" THEN [failed |-> FALSE, err |-> FALSE, list |-> all]
      ELSE IF how = "next" THEN [failed |-> TRUE, err |-> FALSE, list |-> got]
      ELSE [failed |-> TRUE, err |-> TRUE, list |-> got]

\* Spanner.setVersion: the mutation it applies to the configured table.
setVersion(u) ==
  [rows EXCEPT ![migrationsTable] =
     IF u.dir = "down" THEN @ \ {u.v} ELSE @ \cup {u.v}]

\* spanner.Insert fails on a row that exists; spanner.Delete of a missing row succeeds.
InsertConflict(u) == u.dir = "up" /\ u.v \in rows[migrationsTable]

\* The statements of a unit: an Up unit puts its version's objects in place,
\* its Down unit (the inverse) removes them.
Statements(u) == IF u.dir = "down" THEN schema \ {u.v} ELSE schema \cup {u.v}

\* ------------------------------------------------------------ the engine
\* Up units above the current version, ascending.
UpFiles(cur) == UnitsOf("up", Ascending({v \in files : v > cur}))

\* Down units of the applied versions, descending.
DownFiles(list) == UnitsOf("down", Descending(Range(list) \cap files))

Abs(n) == IF n < 0 THEN -n ELSE n

Relative(n, cur, list) ==
  IF n > 0 THEN Take(UpFiles(cur), n)
  ELSE IF n < 0 THEN Take(DownFiles(list), -n)
  ELSE <<>>

RedoFiles(cur) == IF cur = 0 THEN <<>> ELSE <<Unit("down", cur), Unit("up", cur)>>

\* ------------------------------------------------------------ the commands
\* GotoDelta with the target passed on as it is.
GotoDelta_Absolute(to) == to

\* gotoCommand: relativeNInt := toVersionInt - int(currentVersion)
GotoDelta(to) == to - Version

\* resetCommand calls migrate.Redo
ResetOp == "redo"

\* EngineOp with redoCommand calling migrate.Down.
EngineOp_RedoAsDown(cm) ==
  IF cm.name = "goto" THEN [name |-> "migrate", arg |-> GotoDelta(cm.arg)]
  ELSE IF cm.name = "reset" THEN [name |-> ResetOp, arg |-> 0]
  ELSE IF cm.name = "redo" THEN [name |-> "down", arg |-> 0]
  ELSE cm

\* EngineOp with upCommand calling migrate.Down.
EngineOp_UpAsDown(cm) ==
  IF cm.name = "goto" THEN [name |-> "migrate", arg |-> GotoDelta(cm.arg)]
  ELSE IF cm.name = "reset" THEN [name |-> ResetOp, arg |-> 0]
  ELSE IF cm.name = "up" THEN [name |-> "down", arg |-> 0]
  ELSE cm

\* The engine operation a command calls, with its argument.
EngineOp(cm) ==
  IF cm.name = "goto" THEN [name |-> "migrate", arg |-> GotoDelta(cm.arg)]
  ELSE IF cm.name = "reset" THEN [name |-> ResetOp, arg |-> 0]
  ELSE cm

Cmds ==
  {[name |-> n, arg |-> 0] : n \in {"up", "down", "redo", "reset", "version"}}
  \cup {[name |-> "migrate", arg |-> n] : n \in (-MaxVersion)..MaxVersion}
  \cup {[name |-> n, arg |-> v] : n \in {"apply", "rollback"}, v \in VersionSet}
  \cup {[name |-> "goto", arg |-> v] : v \in 0..MaxVersion}

ReadsVersion(op) == op.name \in {"up", "redo"} \/ (op.name = "migrate" /\ op.arg > 0)
                    \/ cmd.name = "goto"

ReadsVersions(op) == op.name = "down" \/ (op.name = "migrate" /\ op.arg < 0)

Plan(op, list) ==
  IF op.name = "up" THEN UpFiles(Version)
  ELSE IF op.name = "down" THEN DownFiles(list)
  ELSE IF op.name = "migrate" THEN Relative(op.arg, Version, list)
  ELSE IF op.name = "redo" THEN RedoFiles(Version)
  ELSE IF op.name = "apply" THEN <<Unit("up", op.arg)>>
  ELSE IF op.name = "rollback" THEN <<Unit("down", op.arg)>>
  ELSE <<>>

Running == exitCode = "running"

InFlight == pc \in {"pre", "setver", "ddl", "post"}


\* ------------------------------------------------------------ initial state
InitWith(runs) ==
  /\ files \in SUBSET VersionSet
  /\ migrationsTable \in Tables
  /\ \E a \in SUBSET files :
       /\ rows = [t \in Tables |-> IF t = migrationsTable THEN a ELSE {}]
       /\ schema = a
  /\ runsLeft = runs
  /\ pc = "idle"
  /\ cmd = [name |-> "none", arg |-> 0]
  /\ work = <<>>
  /\ short = FALSE
  /\ applied = <<>>
  /\ started = <<>>
  /\ err = "none"
  /\ verDone = FALSE
  /\ ddlDone = FALSE
  /\ vcall = NoCall
  /\ vBefore = 0
  /\ ctxDone = FALSE
  /\ exit = FALSE
  /\ loop = FALSE
  /\ c = 0
  /\ notify = FALSE
  /\ nintr = 0
  /\ nrecv = 0
  /\ scancel = -1
  /\ fcancel = FALSE
  /\ ndone = 0
  /\ exitCode = "none"
  /\ reported = -1
  /\ prev = NoPrev

\* One process runs one command.
Init == InitWith(1)

\* Consecutive invocations against the same database.
InitPair == InitWith(MaxRuns)

\* What an invocation leaves for the next one to look back on.
Summary(ok) ==
  [name |-> cmd.name, arg |-> cmd.arg, ok |-> ok, before |-> vBefore, after |-> Version]

\* ------------------------------------------------------------ the command
\* A command starts: newMigrateWithCtx opens the driver and the engine and
\* starts the controller goroutine (newOsInterruptCtx).
Start(cm) ==
  /\ pc = "idle"
  /\ runsLeft > 0
  /\ runsLeft' = runsLeft - 1
  /\ cmd' = cm
  /\ pc' = "begin"
  /\ work' = <<>>
  /\ short' = FALSE
  /\ applied' = <<>>
  /\ started' = <<>>
  /\ err' = "none"
  /\ verDone' = FALSE
  /\ ddlDone' = FALSE
  /\ vcall' = NoCall
  /\ vBefore' = Version
  /\ ctxDone' = FALSE
  /\ exit' = FALSE
  /\ loop' = TRUE
  /\ c' = 0
  /\ notify' = TRUE
  /\ nintr' = 0
  /\ nrecv' = 0
  /\ scancel' = -1
  /\ fcancel' = FALSE
  /\ ndone' = 0
  /\ exitCode' = "running"
  /\ reported' = -1
  /\ UNCHANGED <<cfgVars, dbVars, prev>>

\* The engine operation begins: it reads the driver and the file store and
\* computes its list of units. vfail: the Version() query fails; (k, how):
\* how the Versions() read goes.
Begin(vfail, k, how) ==
  /\ pc = "begin"
  /\ Running
  /\ LET op == EngineOp(cmd)
         res == IF ReadsVersions(op) THEN VersionsResult(k, how) ELSE NoCall
         plan == Plan(op, res.list)
     IN  /\ ReadsVersions(op) \/ (k = 0 /\ how = "done")
         /\ how = "done" => k = 0
         /\ k <= Cardinality(rows[DefaultMigrationsTable])
         /\ ReadsVersion(op) \/ ~vfail
         /\ vcall' = res
         /\ IF vfail \/ res.err
              THEN /\ err' = "driver"
                   /\ pc' = "ended"
                   /\ UNCHANGED <<work, short>>
            ELSE IF op.name \in {"apply", "rollback"} /\ op.arg \notin files
              THEN /\ err' = "notfound"
                   /\ pc' = "ended"
                   /\ UNCHANGED <<work, short>>
            ELSE IF op.name = "version"
              THEN /\ err' = "ok"
                   /\ pc' = "ended"
                   /\ UNCHANGED <<work, short>>
            ELSE /\ work' = plan
                 /\ short' = (op.name = "migrate" /\ Len(plan) < Abs(op.arg))
                 /\ pc' = "check"
                 /\ UNCHANGED err
  /\ UNCHANGED <<cfgVars, dbVars, ctlVars, runsLeft, cmd, applied, started,
                 verDone, ddlDone, vBefore, ndone, exitCode, reported, prev>>

\* Before each unit the engine looks at the context.
Check ==
  /\ pc = "check"
  /\ Running
  /\ IF work = <<>>
       THEN /\ err' = IF short THEN "insufficient" ELSE "ok"
            /\ pc' = "ended"
            /\ UNCHANGED <<started, verDone, ddlDone>>
     ELSE IF ctxDone
       THEN /\ err' = "canceled"
            /\ pc' = "ended"
            /\ UNCHANGED <<started, verDone, ddlDone>>
     ELSE /\ pc' = "pre"
          /\ started' = Append(started, Head(work))
          /\ verDone' = FALSE
          /\ ddlDone' = FALSE
          /\ UNCHANGED err
  /\ UNCHANGED <<cfgVars, dbVars, ctlVars, runsLeft, cmd, work, short, applied,
                 vcall, vBefore, ndone, exitCode, reported, prev>>

\* The pre-hook of newMigrateWithCtx logs the unit and returns nil.
PreHook ==
  /\ pc = "pre"
  /\ Running
  /\ pc' = "setver"
  /\ UNCHANGED <<cfgVars, dbVars, ctlVars, engVars, runsLeft, cmd, exitCode,
                 reported, prev>>

\* A hook registered with the engine rejects the unit (pre or post).
HookFails ==
  /\ pc \in {"pre", "post"}
  /\ Running
  /\ err' = "hook"
  /\ pc' = "ended"
  /\ UNCHANGED <<cfgVars, dbVars, ctlVars, runsLeft, cmd, work, short, applied,
                 started, verDone, ddlDone, vcall, vBefore, ndone, exitCode, reported,
                 prev>>


\* Spanner.Migrate, first half: ReadContent, then setVersion. rfail: the
\* content cannot be read; afail: data.Apply fails.
MigrateSetVersion(rfail, afail) ==
  /\ pc = "setver"
  /\ Running
  /\ LET u == Head(work)
     IN  IF rfail \/ afail \/ InsertConflict(u)
           THEN /\ err' = "driver"
                /\ pc' = "ended"
                /\ UNCHANGED <<rows, verDone>>
         ELSE /\ rows' = setVersion(u)
              /\ verDone' = TRUE
              /\ pc' = "ddl"
              /\ UNCHANGED err
  /\ UNCHANGED <<cfgVars, ctlVars, schema, runsLeft, cmd, work, short, applied,
                 started, ddlDone, vcall, vBefore, ndone, exitCode, reported, prev>>

\* Spanner.Migrate, second half: UpdateDatabaseDdl and op.Wait. dfail:
\* "submit" (UpdateDatabaseDdl fails), "wait" (op.Wait fails) or "none".
MigrateDdl(dfail) ==
  /\ pc = "ddl"
  /\ Running
  /\ LET u == Head(work)
     IN  IF dfail # "none"
           THEN /\ err' = "driver"
                /\ pc' = "ended"
                /\ UNCHANGED <<schema, ddlDone, applied>>
         ELSE /\ schema' = Statements(u)
              /\ ddlDone' = TRUE
              /\ applied' = Append(applied, u)
              /\ pc' = "post"
              /\ UNCHANGED err
  /\ UNCHANGED <<cfgVars, ctlVars, rows, runsLeft, cmd, work, short, started,
                 verDone, vcall, vBefore, ndone, exitCode, reported, prev>>

\* PostHookDone with the controller leaving its loop on every completion.
PostHookDone_AlwaysLeaves ==
  /\ pc = "post"
  /\ Running
  /\ loop
  /\ loop' = FALSE
  /\ pc' = "check"
  /\ work' = Tail(work)
  /\ ndone' = ndone + 1
  /\ UNCHANGED <<cfgVars, dbVars, runsLeft, cmd, short, applied, started, err,
                 verDone, ddlDone, vcall, vBefore, ctxDone, exit, c, notify, nintr,
                 nrecv, scancel, fcancel, exitCode, reported, prev>>

\* PostHookDone with the controller never leaving its loop on a completion.
PostHookDone_StaysInLoop ==
  /\ pc = "post"
  /\ Running
  /\ loop
  /\ loop' = loop
  /\ pc' = "check"
  /\ work' = Tail(work)
  /\ ndone' = ndone + 1
  /\ UNCHANGED <<cfgVars, dbVars, runsLeft, cmd, short, applied, started, err,
                 verDone, ddlDone, vcall, vBefore, ctxDone, exit, c, notify, nintr,
                 nrecv, scancel, fcancel, exitCode, reported, prev>>

\* The post-hook of newMigrateWithCtx sends on done; the controller's select
\* receives it (case <-done) and leaves its loop if exit is set.
PostHookDone ==
  /\ pc = "post"
  /\ Running
  /\ loop
  /\ loop' = ~exit
  /\ pc' = "check"
  /\ work' = Tail(work)
  /\ ndone' = ndone + 1
  /\ UNCHANGED <<cfgVars, dbVars, runsLeft, cmd, short, applied, started, err,
                 verDone, ddlDone, vcall, vBefore, ctxDone, exit, c, notify, nintr,
                 nrecv, scancel, fcancel, exitCode, reported, prev>>

\* CommandEnd with the engine's error left unchecked.
CommandEnd_IgnoresError(vfail) ==
  /\ pc = "ended"
  /\ Running
  /\ IF vfail
       THEN /\ exitCode' = "1"
            /\ UNCHANGED <<reported, ctxDone>>
     ELSE /\ reported' = Version
          /\ ctxDone' = TRUE
          /\ exitCode' = "0"
  /\ pc' = "idle"
  /\ prev' = Summary(err = "ok" /\ ~vfail)
  /\ UNCHANGED <<cfgVars, dbVars, engVars, runsLeft, cmd, exit, loop, c, notify,
                 nintr, nrecv, scancel, fcancel>>

\* The command's epilogue: log.Fatalf on an error, else logCurrentVersion
\* (vfail: its Version() query fails), the deferred cancel and the return.
CommandEnd(vfail) ==
  /\ pc = "ended"
  /\ Running
  /\ err = "ok" \/ ~vfail
  /\ IF err # "ok" \/ vfail
       THEN /\ exitCode' = "1"
            /\ UNCHANGED <<reported, ctxDone>>
     ELSE /\ reported' = Version
          /\ ctxDone' = TRUE
          /\ exitCode' = "0"
  /\ pc' = "idle"
  /\ prev' = Summary(err = "ok" /\ ~vfail)
  /\ UNCHANGED <<cfgVars, dbVars, engVars, runsLeft, cmd, exit, loop, c, notify,
                 nintr, nrecv, scancel, fcancel>>

\* ------------------------------------------------------------ the controller
\* The OS sends os.Interrupt. While Notify is in force it is put in c unless
\* c is full; after signal.Stop the default action ends the process.
Interrupt ==
  /\ Running
  /\ nintr < MaxInterrupts
  /\ nintr' = nintr + 1
  /\ IF notify
       THEN /\ c' = 1
            /\ UNCHANGED <<pc, exitCode, prev>>
     ELSE /\ exitCode' = "sigint"
          /\ pc' = "idle"
          /\ prev' = Summary(FALSE)
          /\ UNCHANGED c
  /\ UNCHANGED <<cfgVars, dbVars, engVars, runsLeft, cmd, ctxDone, exit, loop,
                 notify, nrecv, scancel, fcancel, reported>>

\* CtlSignal with the call of cancel() left out of the first interrupt.
CtlSignal_NoCancel ==
  /\ Running
  /\ loop
  /\ c = 1
  /\ c' = 0
  /\ nrecv' = nrecv + 1
  /\ IF exit
       THEN /\ exitCode' = "5"
            /\ pc' = "idle"
            /\ prev' = Summary(FALSE)
            /\ UNCHANGED <<ctxDone, exit, scancel, fcancel>>
     ELSE /\ exit' = TRUE
          /\ scancel' = Len(started)
          /\ fcancel' = InFlight
          /\ UNCHANGED <<ctxDone, pc, exitCode, prev>>
  /\ UNCHANGED <<cfgVars, dbVars, engVars, runsLeft, cmd, loop, notify, nintr,
                 reported>>

\* CtlSignal without the test of exit: any interrupt ends the process.
CtlSignal_ExitOnFirst ==
  /\ Running
  /\ loop
  /\ c = 1
  /\ c' = 0
  /\ nrecv' = nrecv + 1
  /\ exitCode' = "5"
  /\ pc' = "idle"
  /\ prev' = Summary(FALSE)
  /\ UNCHANGED <<cfgVars, dbVars, engVars, runsLeft, cmd, ctxDone, exit, loop,
                 notify, nintr, scancel, fcancel, reported>>

\* The controller's select takes a signal (case <-c).
CtlSignal ==
  /\ Running
  /\ loop
  /\ c = 1
  /\ c' = 0
  /\ nrecv' = nrecv + 1
  /\ IF exit
       THEN /\ exitCode' = "5"
            /\ pc' = "idle"
            /\ prev' = Summary(FALSE)
            /\ UNCHANGED <<ctxDone, exit, scancel, fcancel>>
     ELSE /\ ctxDone' = TRUE
          /\ exit' = TRUE
          /\ scancel' = Len(started)
          /\ fcancel' = InFlight
          /\ UNCHANGED <<pc, exitCode, prev>>
  /\ UNCHANGED <<cfgVars, dbVars, engVars, runsLeft, cmd, loop, notify, nintr,
                 reported>>

\* Out of its loop, the controller calls signal.Stop(c) and ends.
CtlStop ==
  /\ Running
  /\ ~loop
  /\ notify
  /\ notify' = FALSE
  /\ UNCHANGED <<cfgVars, dbVars, engVars, runsLeft, pc, cmd, ctxDone, exit, loop,
                 c, nintr, nrecv, scancel, fcancel, exitCode, reported, prev>>

\* ------------------------------------------------------------ specification
Next ==
  \/ \E cm \in Cmds : Start(cm)
  \/ \E vfail \in BOOLEAN, k \in 0..MaxVersion, how \in {"done", "next", "decode"} :
       Begin(vfail, k, how)
  \/ Check
  \/ PreHook
  \/ HookFails
  \/ \E rfail \in BOOLEAN, afail \in BOOLEAN : MigrateSetVersion(rfail, afail)
  \/ \E dfail \in {"none", "submit", "wait"} : MigrateDdl(dfail)
  \/ PostHookDone
  \/ \E vfail \in BOOLEAN : CommandEnd(vfail)
  \/ Interrupt
  \/ CtlSignal
  \/ CtlStop

Spec == Init /\ [][Next]_vars

\* Consecutive invocations while the OS sends no interrupt.
NextPair ==
  \/ \E cm \in Cmds : Start(cm)
  \/ \E vfail \in BOOLEAN, k \in 0..MaxVersion, how \in {"done", "next", "decode"} :
       Begin(vfail, k, how)
  \/ Check
  \/ PreHook
  \/ HookFails
  \/ \E rfail \in BOOLEAN, afail \in BOOLEAN : MigrateSetVersion(rfail, afail)
  \/ \E dfail \in {"none", "submit", "wait"} : MigrateDdl(dfail)
  \/ PostHookDone
  \/ \E vfail \in BOOLEAN : CommandEnd(vfail)

SpecPair == InitPair /\ [][NextPair]_vars

\* One invocation with the controller goroutine scheduled: a send on done that
\* the select can take is taken.
SpecLive == Init /\ [][Next]_vars /\ WF_vars(PostHookDone)


\* ------------------------------------------------------------ properties
Last(s) == s[Len(s)]

Succeeded == pc = "idle" /\ exitCode = "0"

\* C1: Up() from applied version 0 ends with the driver's reported version
\* equal to the highest available version, having applied every Up unit
\* exactly once, in ascending order.
C1_UpReachesMax ==
  (cmd.name = "up" /\ vBefore = 0 /\ Succeeded)
    => /\ Version = MaxOf(files)
       /\ applied = UnitsOf("up", Ascending(files))

\* C4: when Spanner.Migrate returns (nil or an error), the unit's version
\* record and its statements have both landed or neither has.
C4_MigrateAtomic ==
  (pc = "post" \/ (pc = "ended" /\ err = "driver")) => (verDone = ddlDone)

\* C5: after a successful driver Migrate, Version() is the highest version
\* recorded in the driver's applied-version table, 0 if none is recorded,
\* whatever table name the URL configures.
C5_VersionIsMaxRecorded ==
  pc = "post" => Version = MaxOf(rows[migrationsTable])

\* C8: a Versions() call whose read met an error returns an error.
C8_VersionsReportsReadError ==
  vcall.failed => vcall.err

\* C2 as stated: once cancellation was requested with unit k in flight, the
\* process does not end before unit k's apply and post-hook completed (unless
\* unit k itself failed), and no unit k+1 starts; requested before the first
\* unit, no unit starts.
C2_NeverTruncated ==
  /\ scancel >= 0 => Len(started) = scancel
  /\ (fcancel /\ ~Running /\ err \notin {"driver", "hook"}) => ndone >= scancel

\* C2 amended: the same, in every run that a second interrupt does not end
\* with exit code 5; and while unit k's post-hook sends its completion the
\* controller is still there to receive it.
C2_NeverTruncatedUnlessForced ==
  /\ scancel >= 0 => Len(started) = scancel
  /\ (fcancel /\ ~Running /\ exitCode # "5" /\ err \notin {"driver", "hook"})
       => ndone >= scancel
  /\ (fcancel /\ Running /\ pc = "post") => loop

C2_Witness ==
  /\ fcancel
  /\ scancel >= 1
  /\ pc = "idle"
  /\ exitCode = "1"
  /\ err = "canceled"
  /\ ndone = scancel
  /\ work # <<>>

\* C3: the first interrupt the controller receives only cancels the context;
\* a second one, received while the controller is still in its loop (the
\* completion of the unit in flight not yet consumed), ends the process with
\* exit code 5 at once; exit code 5 never comes from fewer than two interrupts.
C3_TwoPhase ==
  /\ exitCode = "5" => (nrecv = 2 /\ nintr >= 2)
  /\ nrecv = 0 => (~exit /\ (Running => ~ctxDone))
  /\ nrecv = 1 => (exit /\ exitCode # "5" /\ (Running => ctxDone))
  /\ nrecv >= 2 => exitCode = "5"

C3_Witness ==
  /\ exitCode = "5"
  /\ fcancel
  /\ verDone
  /\ ~ddlDone

\* C6: stated for the default table (where Version() reads the table the
\* driver writes): goto v, v being 0 or a version of the file store, when it
\* succeeds leaves the driver's reported version at v.
C6_GotoReachesTarget ==
  (/\ cmd.name = "goto"
   /\ migrationsTable = DefaultMigrationsTable
   /\ cmd.arg = 0 \/ cmd.arg \in files
   /\ Succeeded)
    => Version = cmd.arg

C9_MigrateRoundTrip ==
  (/\ prev.name = "migrate"
   /\ prev.ok
   /\ prev.arg > 0
   /\ cmd = [name |-> "migrate", arg |-> -prev.arg]
   /\ pc = "ended"
   /\ err = "ok")
    => Version = prev.before

\* C10: apply v for a v without an Up unit in the file store fails with
\* Not-Found (the command exits non-zero), runs no hook and no driver
\* Migrate, and leaves the driver's reported version as it was.
C10_ApplyAbsentNotFound ==
  (cmd.name = "apply" /\ cmd.arg \notin files)
    => /\ started = <<>>
       /\ applied = <<>>
       /\ ~verDone /\ ~ddlDone
       /\ Version = vBefore
       /\ pc \in {"begin", "ended", "idle"}
       /\ pc = "ended" => err = "notfound"
       /\ pc = "idle" => (exitCode # "0" /\ (exitCode = "1" => err = "notfound"))

C10_Witness ==
  /\ cmd.name = "apply"
  /\ cmd.arg \notin files
  /\ pc = "idle"
  /\ exitCode = "1"
  /\ err = "notfound"

\* The units Migrate(n) has to choose from, by the rows the driver recorded.
Available(n) ==
  IF n > 0 THEN UpFiles(MaxOf(rows[migrationsTable]))
  ELSE DownFiles(Ascending(rows[migrationsTable]))

\* C11: stated for the default table: migrate n, when fewer than |n| units
\* are available in its direction, sets out to apply exactly the units that
\* exist, in order, and reports the shortfall once they are applied.
C11_AppliesWhatExists ==
  /\ (/\ cmd.name = "migrate"
      /\ migrationsTable = DefaultMigrationsTable
      /\ pc = "check"
      /\ started = <<>>
      /\ Len(Available(cmd.arg)) < Abs(cmd.arg))
       => (work = Available(cmd.arg) /\ short)
  /\ (cmd.name = "migrate" /\ short /\ pc = "ended" /\ work = <<>>)
       => err = "insufficient"

\* C12: stated for the default table: when down completes, it has applied the
\* Down unit of every applied version, once each, in descending order; no
\* version is left recorded and the driver's reported version is 0.
C12_DownAppliesAll ==
  (/\ cmd.name = "down"
   /\ migrationsTable = DefaultMigrationsTable
   /\ pc = "ended"
   /\ err = "ok")
    => /\ rows[migrationsTable] = {}
       /\ Version = 0
       /\ applied = UnitsOf("down", Descending({applied[i].v : i \in 1..Len(applied)}))

C14_ResetIsDownThenUp ==
  (/\ cmd.name = "reset"
   /\ migrationsTable = DefaultMigrationsTable
   /\ pc = "ended"
   /\ err = "ok")
    => /\ Version = MaxOf(files)
       /\ rows[migrationsTable] = files

\* C15: redo with current version c > 0 starts the Down unit of c, then the Up
\* unit of c, and nothing else; when it succeeds it has applied exactly these
\* two and the reported version is c again. With c = 0 it starts nothing and,
\* its read of the version succeeding, succeeds.
C15_RedoSameVersion ==
  LET todo == IF vBefore = 0 THEN <<>>
              ELSE <<Unit("down", vBefore), Unit("up", vBefore)>>
  IN  cmd.name = "redo"
        => /\ Len(started) <= Len(todo)
           /\ started = Take(todo, Len(started))
           /\ (pc = "ended" /\ err = "ok") => (applied = todo /\ Version = vBefore)
           /\ (pc = "ended" /\ vBefore = 0) => err \in {"ok", "driver"}

C15_Witness ==
  /\ cmd.name = "redo"
  /\ pc = "ended"
  /\ err = "ok"
  /\ vBefore > 0
  /\ Len(applied) = 2
  /\ \E v \in files : v < vBefore /\ v \notin rows[migrationsTable]

\* C16: up, called when the driver's reported version is the highest available
\* version, starts no unit, runs no hook, writes nothing and, its read of the
\* version succeeding, succeeds and reports the same version.
C16_UpAtMaxIsNoOp ==
  (cmd.name = "up" /\ vBefore = MaxOf(files))
    => /\ started = <<>>
       /\ applied = <<>>
       /\ ~InFlight
       /\ ~verDone /\ ~ddlDone
       /\ Version = vBefore
       /\ pc = "ended" => err \in {"ok", "driver"}
       /\ Succeeded => reported = vBefore

C16_Witness ==
  /\ cmd.name = "up"
  /\ vBefore = MaxOf(files)
  /\ vBefore > 0
  /\ Succeeded
  /\ err = "ok"

\* C17: goto v runs as migrate (v - current) runs, current being the version
\* read as it began: the units started are a prefix of that Migrate's list,
\* when the list is worked through the units applied are that list, and the
\* outcome is the shortfall failure exactly when the list is shorter than
\* |v - current|. The same holds of migrate n with n for the delta.
C17_GotoIsMigrateDelta ==
  LET delta == IF cmd.name = "goto" THEN cmd.arg - vBefore ELSE cmd.arg
      plan == Relative(delta, vBefore, vcall.list)
  IN  (cmd.name \in {"goto", "migrate"} /\ pc # "begin")
        => /\ Len(started) <= Len(plan)
           /\ started = Take(plan, Len(started))
           /\ (pc = "ended" /\ err \in {"ok", "insufficient"})
                => /\ applied = plan
                   /\ (err = "insufficient") = (Len(plan) < Abs(delta))

C17_Witness ==
  /\ cmd.name = "goto"
  /\ pc = "ended"
  /\ err = "ok"
  /\ vBefore > 0
  /\ Len(applied) = 2

\* C18: a migrating command whose engine operation ended aborted or cancelled
\* has, when the process is over, reported the post-operation version.
C18_ReportsVersionAfterAbort ==
  (/\ cmd.name \notin {"none", "version"}
   /\ pc = "idle"
   /\ exitCode = "1"
   /\ err \in {"hook", "driver", "canceled", "insufficient", "notfound"})
    => reported = Version

\* The engine is in the post-hook, at its send on done.
Sending == pc = "post" /\ Running

\* C19: whenever the engine is at the post-hook's send the controller is in
\* its loop, the controller out of its loop means the engine starts no
\* further unit, and every send is followed by a state where the engine is
\* no longer at the send.
C19_PostHookNeverBlocks ==
  /\ [](Sending => loop)
  /\ []((Running /\ ~loop) => (ctxDone /\ ~InFlight))
  /\ (Sending ~> ~Sending)

C19_Witness ==
  /\ Running
  /\ ~loop
  /\ ndone >= 1
  /\ pc = "ended"
  /\ err = "canceled"
  /\ work # <<>>

\* C20 as stated: the process is force-terminated only if the first interrupt
\* was taken while a unit was in flight.
C20_ForcedOnlyInFlight == exitCode = "5" => fcancel

\* C20: the process is force-terminated only by a second interrupt taken while
\* the controller is in its loop, before any completion after the first
\* interrupt was consumed, whether or not a unit was in flight; once the
\* completion of the unit in flight at the first interrupt is consumed, the
\* controller is out of its loop and the process is not force-terminated.
C20_ForcedOnlyWhileLooping ==
  /\ exitCode = "5"
       => /\ exit /\ loop
          /\ nrecv = 2
          /\ fcancel => ndone = scancel - 1
  /\ (exit /\ fcancel /\ ndone >= scancel) => (~loop /\ exitCode # "5")

C20_Witness == exitCode = "5" /\ ~fcancel /\ started = <<>>

====
